---- MODULE Spec2Model ----
(***************************************************************************)
(* Model of the Neura design system: the ThemeProvider (selection state,   *)
(* resolution of the active colour scheme, toggle), the useTheme family of *)
(* hooks, the ThemedButton press handler and the createStyles style cache. *)
(*                                                                         *)
(* React state is modelled as React keeps it: the value a render reads     *)
(* (userColorScheme), and the queue of updates that setUserColorScheme has *)
(* enqueued and the next render will apply (updateQueue).  A callback made *)
(* by a render sees the values of that render until the next render.       *)
(***************************************************************************)
EXTENDS Integers, Sequences, FiniteSets, TLC

VARIABLES
    userColorScheme,    \* ThemeProvider: the useState value the last render read
    updateQueue,        \* values passed to setUserColorScheme since the last render
    systemColorScheme,  \* what the host's useColorScheme() returns
    forcedTheme,        \* the forcedTheme prop (Undefined when not supplied)
    contextValue,       \* the value the last render gave to ThemeContext.Provider
    views,              \* the theme each consumer under the provider read in the last render
    log,                \* the last two selection operations, with the state each one saw
    envChanges,         \* appearance changes of the host since the last selection operation
    consumer,           \* the outcome of the last hook call of a consumer component
    button,             \* the props ThemedButton was last rendered with
    platform,           \* Platform.OS of the device the components run on
    text,               \* the props ThemedText was last rendered with
    pressLog,           \* the presses delivered to the button, with the props each one saw
    calls,              \* the press events the caller's onPress handler received, in order
    styleCache,         \* makeStyles: the module-level Map, key -> style object
    nextRef,            \* identity of the next object StyleSheet.create returns
    creatorCalls,       \* number of invocations of each style creator on each theme
    lastReturn,         \* what each accessor last returned for each theme
    variantResult,      \* the outcome of the last useVariant call
    memo                \* the useMemo cell of the component that calls each style hook

providerVars == <<userColorScheme, updateQueue, systemColorScheme, forcedTheme,
                  contextValue, views, log, envChanges>>
consumerVars == <<consumer>>
buttonVars == <<button, platform, pressLog, calls>>
textVars == <<text>>
styleVars == <<styleCache, nextRef, creatorCalls, lastReturn, variantResult, memo>>
vars == <<userColorScheme, updateQueue, systemColorScheme, forcedTheme,
          contextValue, views, log, envChanges, consumer, button, platform, text,
          pressLog, calls,
          styleCache, nextRef, creatorCalls, lastReturn, variantResult, memo>>

----------------------------------------------------------------------------
(* Bounds of the model *)

\* setUserColorScheme calls one event handler makes before React renders
MaxQueue == 2
\* appearance changes of the host between two selection operations
MaxEnvChanges == 2

----------------------------------------------------------------------------
(* Values *)

Undefined == [undefined |-> TRUE]

Last(s) == s[Len(s)]

\* type ColorScheme = 'light' | 'dark'
ColorScheme == {"light", "dark"}

\* the setter's argument type: ColorScheme | 'auto'
Selection == ColorScheme \cup {"auto"}

\* what useColorScheme() of the host returns: 'light' | 'dark' | null
SystemPreference == {"light", "dark", "unknown"}

\* lightColors: the tokens the model follows
lightColors ==
    [primary |-> [main |-> "#f59e0b", contrast |-> "#000000"],
     secondary |-> [main |-> "#525252", contrast |-> "#ffffff"],
     background |-> [default |-> "#f7f9fc"],
     surface |-> [variant |-> "#f3f4f6", disabled |-> "#e5e5e5"],
     text |-> [primary |-> "#2d3748", secondary |-> "#525252",
               disabled |-> "#a3a3a3", inverse |-> "#ffffff"],
     border |-> [disabled |-> "#d4d4d4"],
     success |-> [main |-> "#22c55e", contrast |-> "#ffffff"],
     error |-> [main |-> "#ef4444", contrast |-> "#ffffff"],
     warning |-> [main |-> "#f97316", contrast |-> "#000000"],
     golden |-> [main |-> "#f59e0b", contrast |-> "#000000"]]

\* darkColors: the tokens the model follows
darkColors ==
    [primary |-> [main |-> "#ffbe0b", contrast |-> "#000000"],
     secondary |-> [main |-> "#a3a3a3", contrast |-> "#000000"],
     background |-> [default |-> "#1a1d2e"],
     surface |-> [variant |-> "#2d3253", disabled |-> "#525252"],
     text |-> [primary |-> "#f7fafc", secondary |-> "#cbd5e0",
               disabled |-> "#737373", inverse |-> "#000000"],
     border |-> [disabled |-> "#404040"],
     success |-> [main |-> "#22c55e", contrast |-> "#000000"],
     error |-> [main |-> "#ef4444", contrast |-> "#ffffff"],
     warning |-> [main |-> "#f97316", contrast |-> "#000000"],
     golden |-> [main |-> "#ffbe0b", contrast |-> "#000000"]]

\* a Theme object; ref is the identity of the object
lightTheme == [ref |-> "lightTheme", colors |-> lightColors]

darkTheme == [ref |-> "darkTheme", colors |-> darkColors]

\* themes = { light: lightTheme, dark: darkTheme }
themes == [light |-> lightTheme, dark |-> darkTheme]

\* a theme a caller builds for forcedTheme: the light theme with another text colour
customTheme ==
    [ref |-> "customTheme",
     colors |-> [lightColors EXCEPT !.text.primary = "#112233"]]

\* typography: the variants the model follows, with their font size and line
\* height; lightTheme and darkTheme carry this same table
typography ==
    [displayLarge |-> [fontSize |-> 57, lineHeight |-> 64],
     titleMedium |-> [fontSize |-> 18, lineHeight |-> 24],
     labelLarge |-> [fontSize |-> 15, lineHeight |-> 20],
     labelMedium |-> [fontSize |-> 13, lineHeight |-> 16],
     bodyMedium |-> [fontSize |-> 16, lineHeight |-> 20],
     caption |-> [fontSize |-> 12, lineHeight |-> 16]]

\* spacing: the steps ThemedButton uses, at the size moderateScale gives on the
\* guideline screen; lightTheme and darkTheme carry this same scale
spacing == [s \in {2, 3, 4, 6, 8} |->
               CASE s = 2 -> 8 [] s = 3 -> 12 [] s = 4 -> 16 [] s = 6 -> 32 [] s = 8 -> 48]

\* the members every object literal inherits from Object.prototype (those the
\* model follows)
ObjectPrototype == {"constructor", "toString"}

\* the value of an inherited member: a function, never a colour or a style
Inherited(key) == "Object.prototype." \o key

\* {}: the object with no own properties
EmptyObject == [k \in {} |-> TRUE]

----------------------------------------------------------------------------
(* ThemeProvider *)

activeColorSchemeLeaksAuto(user, system) == user

activeColorSchemeRawSystem(user, system) == IF user = "auto" THEN system ELSE user

activeColorSchemeFollowsSystem(user, system) ==
    IF system = "dark" THEN "dark" ELSE "light"

activeColorSchemeLightOnly(user, system) ==
    IF user = "auto"
    THEN (IF system = "light" THEN "light" ELSE "dark")
    ELSE user

\* const activeColorScheme = userColorScheme === 'auto'
\*     ? (systemColorScheme === 'dark' ? 'dark' : 'light') : userColorScheme
activeColorScheme(user, system) ==
    IF user = "auto"
    THEN (IF system = "dark" THEN "dark" ELSE "light")
    ELSE user

currentThemeSwapped(forced, active) ==
    IF forced # Undefined THEN forced
    ELSE IF active = "light" THEN darkTheme ELSE lightTheme

currentThemeIgnoresForced(forced, active) ==
    IF active \in DOMAIN themes THEN themes[active] ELSE Undefined

currentThemeDefault(forced, active) ==
    IF forced # Undefined THEN forced ELSE lightTheme

\* const currentTheme = forcedTheme || themes[activeColorScheme]
currentTheme(forced, active) ==
    IF forced # Undefined THEN forced
    ELSE IF active \in DOMAIN themes THEN themes[active] ELSE Undefined

MakeContextValueFlagsFromSelection(user, system, forced) ==
    LET active == activeColorScheme(user, system)
    IN  [theme |-> currentTheme(forced, active),
         colorScheme |-> active,
         isDark |-> (user = "dark"),
         isLight |-> (user = "light")]

\* the contextValue object a render builds
MakeContextValue(user, system, forced) ==
    LET active == activeColorScheme(user, system)
    IN  [theme |-> currentTheme(forced, active),
         colorScheme |-> active,
         isDark |-> (active = "dark"),
         isLight |-> (active = "light")]

\* the state value a render reads: React applies the queued updates in order
ReducedState(user, queue) == IF queue = <<>> THEN user ELSE Last(queue)

toggleTargetFromSelection(user, system, active) ==
    IF user = "light" THEN "dark" ELSE "light"

toggleTargetSame(user, system, active) ==
    IF user = "auto"
    THEN (IF system = "dark" THEN "dark" ELSE "light")
    ELSE (IF active = "light" THEN "dark" ELSE "light")

\* the argument toggleColorScheme passes to setUserColorScheme; user, system
\* and active are the values of the render that made the callback
toggleTarget(user, system, active) ==
    IF user = "auto"
    THEN (IF system = "dark" THEN "light" ELSE "dark")
    ELSE (IF active = "light" THEN "dark" ELSE "light")

(* useTheme and the hooks and components built on it *)

\* where a consumer component is rendered
Scope == {"inside", "outside"}

\* the hooks of ThemeProvider.tsx and the components that call useTheme
Hook == {"useTheme", "useThemeTokens", "useColorSchemeUtils", "ThemedText", "ThemedButton"}

\* useContext(ThemeContext): the value of the nearest provider, else the
\* default given to createContext, which is undefined
useContext(scope) == IF scope = "inside" THEN contextValue ELSE Undefined

Returned(value) == [threw |-> FALSE, error |-> "none", value |-> value]

Thrown(message) == [threw |-> TRUE, error |-> message, value |-> Undefined]

useThemeDefaulting(scope) ==
    LET context == useContext(scope)
    IN  IF context = Undefined
        THEN Returned(MakeContextValue("light", "unknown", Undefined))
        ELSE Returned(context)

\* useTheme(): throws when the context is undefined
useTheme(scope) ==
    LET context == useContext(scope)
    IN  IF context = Undefined
        THEN Thrown("useTheme must be used within a ThemeProvider")
        ELSE Returned(context)

\* useThemeTokens(): useTheme().theme
useThemeTokens(scope) ==
    LET r == useTheme(scope)
    IN  IF r.threw THEN r ELSE Returned(r.value.theme)

\* useColorSchemeUtils(): the scheme fields of useTheme()
useColorSchemeUtils(scope) ==
    LET r == useTheme(scope)
    IN  IF r.threw THEN r
        ELSE Returned([colorScheme |-> r.value.colorScheme,
                       isDark |-> r.value.isDark,
                       isLight |-> r.value.isLight])

\* ThemedText and ThemedButton start with: const { theme } = useTheme()
componentTheme(scope) ==
    LET r == useTheme(scope)
    IN  IF r.threw THEN r ELSE Returned(r.value.theme)

CallHook(hook, scope) ==
    CASE hook = "useTheme" -> useTheme(scope)
      [] hook = "useThemeTokens" -> useThemeTokens(scope)
      [] hook = "useColorSchemeUtils" -> useColorSchemeUtils(scope)
      [] OTHER -> componentTheme(scope)

\* a consumer component renders and calls a hook
UseHook(hook, scope) ==
    /\ consumer' = [hook |-> hook, scope |-> scope, result |-> CallHook(hook, scope)]
    /\ UNCHANGED <<providerVars, buttonVars, textVars, styleVars>>

ConsumerInit ==
    consumer = [hook |-> "none", scope |-> "none", result |-> Returned(Undefined)]

\* the consumer components mounted under the provider: a themed component and a
\* component that calls useThemeTokens
Consumers == {"text", "tokens"}

\* the theme a consumer under the provider reads when it renders
ConsumerTheme(c) ==
    IF c = "text" THEN componentTheme("inside").value ELSE useThemeTokens("inside").value

\* React renders every consumer of the context in the pass that renders the provider
RenderConsumers == views' = [c \in Consumers |-> ConsumerTheme(c)']

----------------------------------------------------------------------------
(* ThemeProvider: operations *)


\* what log remembers of a selection operation: the state it was called in
LogEntry(op, arg) ==
    [op |-> op, arg |-> arg,
     user |-> userColorScheme,
     system |-> systemColorScheme,
     scheme |-> contextValue.colorScheme,
     pending |-> Len(updateQueue)]

\* log after one more operation: the previous operation and this one
Remember(entry) == IF log = <<>> THEN <<entry>> ELSE <<Last(log), entry>>

\* setColorScheme(scheme): setUserColorScheme(scheme)
setColorScheme(scheme) ==
    /\ Len(updateQueue) < MaxQueue
    /\ updateQueue' = Append(updateQueue, scheme)
    /\ log' = Remember(LogEntry("set", scheme))
    /\ envChanges' = 0
    /\ UNCHANGED <<userColorScheme, systemColorScheme, forcedTheme, contextValue, views>>
    /\ UNCHANGED <<consumerVars, buttonVars, textVars, styleVars>>

toggleColorSchemeFunctional ==
    /\ Len(updateQueue) < MaxQueue
    /\ updateQueue' = Append(updateQueue,
            LET user == ReducedState(userColorScheme, updateQueue)
            IN  toggleTarget(user, systemColorScheme,
                             activeColorScheme(user, systemColorScheme)))
    /\ log' = Remember(LogEntry("toggle", "none"))
    /\ envChanges' = 0
    /\ UNCHANGED <<userColorScheme, systemColorScheme, forcedTheme, contextValue, views>>
    /\ UNCHANGED <<consumerVars, buttonVars, textVars, styleVars>>

\* toggleColorScheme(): the callback of the last render
toggleColorScheme ==
    /\ Len(updateQueue) < MaxQueue
    /\ updateQueue' = Append(updateQueue,
            toggleTarget(userColorScheme, systemColorScheme, contextValue.colorScheme))
    /\ log' = Remember(LogEntry("toggle", "none"))
    /\ envChanges' = 0
    /\ UNCHANGED <<userColorScheme, systemColorScheme, forcedTheme, contextValue, views>>
    /\ UNCHANGED <<consumerVars, buttonVars, textVars, styleVars>>

\* React renders ThemeProvider after the handler that enqueued updates returns
Render ==
    /\ updateQueue # <<>>
    /\ userColorScheme' = ReducedState(userColorScheme, updateQueue)
    /\ updateQueue' = <<>>
    /\ contextValue' = MakeContextValue(userColorScheme', systemColorScheme, forcedTheme)
    /\ RenderConsumers
    /\ UNCHANGED <<systemColorScheme, forcedTheme, log, envChanges>>
    /\ UNCHANGED <<consumerVars, buttonVars, textVars, styleVars>>

SystemChangeResetsSelection(preference) ==
    /\ preference # systemColorScheme
    /\ envChanges < MaxEnvChanges
    /\ systemColorScheme' = preference
    /\ envChanges' = envChanges + 1
    /\ userColorScheme' = "auto"
    /\ updateQueue' = <<>>
    /\ contextValue' = MakeContextValue(userColorScheme', preference, forcedTheme)
    /\ RenderConsumers
    /\ UNCHANGED <<forcedTheme, log>>
    /\ UNCHANGED <<consumerVars, buttonVars, textVars, styleVars>>

\* the host's appearance changes: useColorScheme() makes ThemeProvider render again
SystemChange(preference) ==
    /\ preference # systemColorScheme
    /\ envChanges < MaxEnvChanges
    /\ systemColorScheme' = preference
    /\ envChanges' = envChanges + 1
    /\ userColorScheme' = ReducedState(userColorScheme, updateQueue)
    /\ updateQueue' = <<>>
    /\ contextValue' = MakeContextValue(userColorScheme', preference, forcedTheme)
    /\ RenderConsumers
    /\ UNCHANGED <<forcedTheme, log>>
    /\ UNCHANGED <<consumerVars, buttonVars, textVars, styleVars>>

ProviderInit ==
    /\ userColorScheme \in Selection
    /\ systemColorScheme \in SystemPreference
    /\ forcedTheme \in {Undefined, customTheme}
    /\ updateQueue = <<>>
    /\ contextValue = MakeContextValue(userColorScheme, systemColorScheme, forcedTheme)
    /\ views = [c \in Consumers |-> ConsumerTheme(c)]
    /\ log = <<>>
    /\ envChanges = 0

----------------------------------------------------------------------------
(* ThemedButton *)

\* presses delivered to one button
MaxPresses == 2

ButtonVariant == {"filled", "outlined", "text", "elevated"}

ButtonColor == {"primary", "secondary", "success", "error", "warning", "golden"}

ButtonSize == {"small", "medium", "large"}

\* Platform.OS
Platform == {"ios", "android"}

\* a value outside the prop's type, as an untyped caller can pass it
Invalid == "invalid"

\* the values each prop of ThemedButton takes; onPress is TRUE when a handler is supplied
PropValues ==
    [variant |-> ButtonVariant \cup {Invalid}, color |-> ButtonColor \cup {Invalid},
     size |-> ButtonSize \cup {Invalid},
     disabled |-> BOOLEAN, loading |-> BOOLEAN, onPress |-> BOOLEAN]

\* const isDisabled = disabled || loading
isDisabled(props) == props.disabled \/ props.loading

handlePressIgnoresLoading(props) == ~props.disabled /\ props.onPress

handlePressInverted(props) == isDisabled(props) /\ props.onPress

\* handlePress: if (!isDisabled && onPress) onPress(event)
handlePress(props) == ~isDisabled(props) /\ props.onPress

getButtonColorNoDefault(color, theme) ==
    IF color \in ButtonColor THEN theme.colors[color] ELSE Undefined

\* getButtonColor: the palette of the colour prop, the primary palette by default
getButtonColor(color, theme) ==
    IF color \in ButtonColor THEN theme.colors[color] ELSE theme.colors.primary

iosBase == 44

androidBase == 48

\* getSizeStyles: paddings and minimum height of the container
getSizeStyles(size, os) ==
    CASE size = "small" ->
            [paddingHorizontal |-> spacing[4], paddingVertical |-> spacing[2],
             minHeight |-> IF os = "ios" THEN iosBase - 8 ELSE androidBase - 8]
      [] size = "medium" ->
            [paddingHorizontal |-> spacing[6], paddingVertical |-> spacing[3],
             minHeight |-> IF os = "ios" THEN iosBase ELSE androidBase]
      [] size = "large" ->
            [paddingHorizontal |-> spacing[8], paddingVertical |-> spacing[4],
             minHeight |-> IF os = "ios" THEN iosBase + 8 ELSE androidBase + 8]
      [] OTHER -> EmptyObject

\* getTextSizeStyles: font size and line height of the label
getTextSizeStyles(size) ==
    CASE size = "small" -> [fontSize |-> typography.labelMedium.fontSize,
                            lineHeight |-> typography.labelMedium.lineHeight]
      [] size = "medium" -> [fontSize |-> typography.labelLarge.fontSize,
                             lineHeight |-> typography.labelLarge.lineHeight]
      [] size = "large" -> [fontSize |-> typography.titleMedium.fontSize,
                            lineHeight |-> typography.titleMedium.lineHeight]
      [] OTHER -> EmptyObject

\* the baseStyle of getButtonStyles; in an object literal a later key wins, and
\* in f @@ g the left operand wins
ButtonBaseStyle(size, fullWidth, os) ==
    (IF fullWidth THEN [width |-> "100%"] ELSE EmptyObject)
    @@ getSizeStyles(size, os)
    @@ [borderRadius |-> "radius.md", alignItems |-> "center",
        justifyContent |-> "center", flexDirection |-> "row"]

\* getButtonStyles: the style of the container
getButtonStyles(variant, color, size, disabled, fullWidth, theme, os) ==
    LET baseStyle == ButtonBaseStyle(size, fullWidth, os)
        buttonColor == getButtonColor(color, theme)
    IN  IF disabled
        THEN [backgroundColor |-> theme.colors.surface.disabled,
              borderColor |-> theme.colors.border.disabled,
              borderWidth |-> IF variant = "outlined" THEN 1 ELSE 0,
              opacity |-> "0.6"] @@ baseStyle
        ELSE CASE variant = "filled" ->
                    [backgroundColor |-> buttonColor.main] @@ baseStyle
               [] variant = "outlined" ->
                    [backgroundColor |-> "transparent", borderColor |-> buttonColor.main,
                     borderWidth |-> 1] @@ baseStyle
               [] variant = "text" ->
                    [backgroundColor |-> "transparent"] @@ baseStyle
               [] variant = "elevated" ->
                    [backgroundColor |-> theme.colors.surface.variant,
                     shadowColor |-> "#000", shadowOffset |-> [width |-> 0, height |-> 2],
                     shadowOpacity |-> "0.1", shadowRadius |-> 4, elevation |-> 2]
                    @@ baseStyle
               [] OTHER -> baseStyle

\* the baseStyle of getTextStyles
TextBaseStyle(size) ==
    getTextSizeStyles(size) @@ [fontWeight |-> "600", textAlign |-> "center"]

\* getTextStyles: the style of the label
getTextStyles(variant, color, size, disabled, theme) ==
    LET baseStyle == TextBaseStyle(size)
        buttonColor == getButtonColor(color, theme)
    IN  IF disabled
        THEN [color |-> theme.colors.text.disabled] @@ baseStyle
        ELSE CASE variant \in {"filled", "elevated"} ->
                    [color |-> buttonColor.contrast] @@ baseStyle
               [] variant \in {"outlined", "text"} ->
                    [color |-> buttonColor.main] @@ baseStyle
               [] OTHER -> baseStyle

\* getSpinnerColor
getSpinnerColor(variant, color, theme) ==
    LET buttonColor == getButtonColor(color, theme)
    IN  CASE variant \in {"filled", "elevated"} -> buttonColor.contrast
          [] variant \in {"outlined", "text"} -> buttonColor.main
          [] OTHER -> theme.colors.text.primary

\* the renders in which a property of the palette getButtonColor returned is
\* read: the enabled styles and the spinner colour of the four variants
ReadsButtonColor(props) ==
    /\ props.variant \in ButtonVariant
    /\ ~isDisabled(props) \/ props.loading

accessibilityStateDisabledOnly(props) ==
    [disabled |-> props.disabled, busy |-> props.loading]

\* accessibilityState={{ disabled: isDisabled, busy: loading }}
accessibilityState(props) == [disabled |-> isDisabled(props), busy |-> props.loading]

\* ThemedButton: what one render gives to TouchableOpacity and its children, or
\* the error the render throws; fullWidth keeps its default
ThemedButton(props, scope, os) ==
    LET r == useTheme(scope)
        theme == r.value.theme
    IN  IF r.threw THEN r
        ELSE IF ReadsButtonColor(props) /\ getButtonColor(props.color, theme) = Undefined
        THEN Thrown("TypeError: Cannot read properties of undefined")
        ELSE Returned(
            [style |-> getButtonStyles(props.variant, props.color, props.size,
                                       isDisabled(props), FALSE, theme, os),
             textStyle |-> getTextStyles(props.variant, props.color, props.size,
                                         isDisabled(props), theme),
             disabled |-> isDisabled(props),
             activeOpacity |-> IF isDisabled(props) THEN "1" ELSE "0.7",
             accessibilityRole |-> "button",
             accessibilityState |-> accessibilityState(props),
             spinner |-> IF props.loading
                         THEN [size |-> "small",
                               color |-> getSpinnerColor(props.variant, props.color, theme)]
                         ELSE Undefined])

\* what the mounted button shows
ButtonView == ThemedButton(button, "inside", platform)

\* the parent renders the button with one prop changed
RenderButton(prop, value) ==
    /\ button[prop] # value
    /\ button' = [button EXCEPT ![prop] = value]
    /\ UNCHANGED <<platform, pressLog, calls>>
    /\ UNCHANGED <<providerVars, consumerVars, textVars, styleVars>>

\* a press reaches the TouchableOpacity, which calls handlePress(event)
Press ==
    /\ Len(pressLog) < MaxPresses
    /\ LET event == Len(pressLog) + 1
       IN  /\ pressLog' = Append(pressLog,
                  [event |-> event, disabled |-> button.disabled,
                   loading |-> button.loading, onPress |-> button.onPress])
           /\ calls' = IF handlePress(button) THEN Append(calls, event) ELSE calls
    /\ UNCHANGED <<button, platform>>
    /\ UNCHANGED <<providerVars, consumerVars, textVars, styleVars>>

\* the defaults of the props: variant = 'filled', color = 'primary', size = 'medium',
\* loading = false, disabled = false
ButtonDefaults ==
    [variant |-> "filled", color |-> "primary", size |-> "medium",
     disabled |-> FALSE, loading |-> FALSE, onPress |-> TRUE]

ButtonInit ==
    /\ button \in [variant : ButtonVariant, color : ButtonColor, size : ButtonSize,
                   disabled : BOOLEAN, loading : BOOLEAN, onPress : BOOLEAN]
    /\ pressLog = <<>>
    /\ calls = <<>>

----------------------------------------------------------------------------
(* ThemedText *)

\* a prop the caller leaves out or passes as undefined
NotGiven == "<undefined>"

\* the names getTextColor maps to the theme's text colours
TextColorName == {"primary", "secondary", "disabled", "inverse"}

\* the values each prop of ThemedText takes
TextPropValues ==
    [variant |-> {"bodyMedium", "displayLarge", Invalid, NotGiven},
     color |-> TextColorName \cup {"#ff0000", "", "constructor", NotGiven}]

\* a destructuring default applies when the prop is undefined
Default(value, default) == IF value = NotGiven THEN default ELSE value

\* {...value}: the own properties of an object, nothing for undefined or a function
Spread(table, key) == IF key \in DOMAIN table THEN table[key] ELSE EmptyObject

\* getTextColor: colorMap[color] || color, where colorMap is an object literal
\* with the keys primary, secondary, disabled and inverse
getTextColor(color, theme) ==
    LET colorMap == [name \in TextColorName |-> theme.colors.text[name]]
    IN  IF color \in DOMAIN colorMap
        THEN IF colorMap[color] # "" THEN colorMap[color] ELSE color
        ELSE IF color \in ObjectPrototype THEN Inherited(color) ELSE color

\* ThemedText: the style one render gives to the Text element, or the error the
\* render throws
ThemedText(props, scope) ==
    LET variant == Default(props.variant, "bodyMedium")
        color == Default(props.color, "primary")
        r == useTheme(scope)
        theme == r.value.theme
    IN  IF r.threw THEN r
        ELSE Returned([style |-> [color |-> getTextColor(color, theme)]
                                 @@ Spread(typography, variant)])

\* what the mounted text shows
TextView == ThemedText(text, "inside")

\* the parent renders the text with one prop changed
RenderText(prop, value) ==
    /\ text[prop] # value
    /\ text' = [text EXCEPT ![prop] = value]
    /\ UNCHANGED <<providerVars, consumerVars, buttonVars, styleVars>>

\* a text rendered with no variant and no color
TextInit == text = [variant |-> NotGiven, color |-> NotGiven]

----------------------------------------------------------------------------
(* makeStyles: createStyles and the module-level style cache *)

\* lookups made of all style accessors together
MaxLookups == 4

\* the theme objects given to style accessors: the two canonical themes and a
\* caller's theme that has the primary and background colours of the light theme
StyleThemes == {lightTheme, darkTheme, customTheme}

ThemeRefs == {t.ref : t \in StyleThemes}

\* the themes a provider without an override exposes
CanonicalThemes == {lightTheme, darkTheme}

ThemeOf(ref) == CHOOSE t \in StyleThemes : t.ref = ref

\* the style creator functions given to createStyles
Creators == {"screen", "variant"}

\* (theme) => styles: "screen" is the creator of the createStylesHook example,
\* "variant" the primary creator of the createVariants example
StyleCreator(creator, theme) ==
    IF creator = "screen"
    THEN [container |-> [backgroundColor |-> theme.colors.background.default],
          text |-> [color |-> theme.colors.text.primary]]
    ELSE [container |-> [backgroundColor |-> theme.colors.primary.main]]

cacheKeySharedTokens(theme) == <<theme.colors.primary.contrast, theme.colors.error.main>>

\* const cacheKey = `${theme.colors.primary.main}-${theme.colors.background.default}`:
\* the two colour strings, kept apart by the separator
cacheKey(theme) == <<theme.colors.primary.main, theme.colors.background.default>>

RECURSIVE SumCounts(_, _)
SumCounts(counts, refs) ==
    IF refs = {} THEN 0
    ELSE LET r == CHOOSE x \in refs : TRUE
         IN  counts[r].count + SumCounts(counts, refs \ {r})

\* the lookups made so far
TotalLookups == LET perCreator == [c \in Creators |-> [count |-> SumCounts(lastReturn[c], ThemeRefs)]]
                IN  SumCounts(perCreator, Creators)

\* styleCache.has(key)
CacheHas(key) == key \in DOMAIN styleCache

CacheSetReplacesAll(key, value) == [k \in {key} |-> value]

\* styleCache.set(key, value)
CacheSet(key, value) ==
    [k \in (DOMAIN styleCache) \cup {key} |-> IF k = key THEN value ELSE styleCache[k]]

useCacheNever(key) == FALSE

\* if (styleCache.has(cacheKey)) return styleCache.get(cacheKey)
useCache(key) == CacheHas(key)

\* the accessor createStyles(styleCreator) returns, called with theme
Accessor(creator, theme) ==
    /\ TotalLookups < MaxLookups
    /\ LET key == cacheKey(theme)
       IN  IF useCache(key)
           THEN /\ lastReturn' = [lastReturn EXCEPT ![creator][theme.ref] =
                        [count |-> @.count + 1, result |-> styleCache[key]]]
                /\ UNCHANGED <<styleCache, nextRef, creatorCalls>>
           ELSE LET styles == [ref |-> nextRef, styles |-> StyleCreator(creator, theme)]
                IN  /\ styleCache' = CacheSet(key, styles)
                    /\ nextRef' = nextRef + 1
                    /\ creatorCalls' = [creatorCalls EXCEPT ![creator][theme.ref] = @ + 1]
                    /\ lastReturn' = [lastReturn EXCEPT ![creator][theme.ref] =
                            [count |-> @.count + 1, result |-> styles]]

\* a component calls an accessor with the theme it reads
Lookup(creator, theme) ==
    /\ Accessor(creator, theme)
    /\ UNCHANGED <<variantResult, memo>>
    /\ UNCHANGED <<providerVars, consumerVars, buttonVars, textVars>>

\* the keys useVariant is called with: the keys of variants, a key that is not
\* in it and a key every object inherits
VariantKey == Creators \cup {"missing"} \cup ObjectPrototype

\* what calling a member inherited from Object.prototype with theme returns:
\* Object(theme) is theme, and toString called without a receiver gives the tag
\* of undefined
InheritedCall(key, theme) == IF key = "constructor" THEN theme ELSE "[object Undefined]"

\* useVariant(variants, variant) in a component that reads theme, where
\* variants = createVariants({ screen: ..., variant: ... }) holds one accessor
\* for each style creator
useVariant(variant, theme) ==
    /\ IF variant \in Creators
       THEN /\ Accessor(variant, theme)
            /\ variantResult' = [variant |-> variant, theme |-> theme.ref,
                                 result |-> Returned(lastReturn'[variant][theme.ref].result)]
       ELSE /\ variantResult' =
                  [variant |-> variant, theme |-> theme.ref,
                   result |-> IF variant \in ObjectPrototype
                              THEN Returned(InheritedCall(variant, theme))
                              ELSE Thrown("Variant \"" \o variant
                                          \o "\" not found in variants object")]
            /\ variantResult' # variantResult
            /\ UNCHANGED <<styleCache, nextRef, creatorCalls, lastReturn>>
    /\ UNCHANGED memo
    /\ UNCHANGED <<providerVars, consumerVars, buttonVars, textVars>>

useMemoRecomputesAlways(deps, ref) == FALSE

\* useMemo(..., [theme]): the stored value is kept when the dependency is the
\* same reference as in the previous render of the component
useMemoKeeps(deps, ref) == deps = ref

\* the hook createStylesHook(styleCreator) returns, called in a render of its
\* component in which useTheme() gives theme
useStyles(creator, theme) ==
    /\ IF useMemoKeeps(memo[creator].deps, theme.ref)
       THEN /\ memo' = [memo EXCEPT ![creator].recomputed = FALSE]
            /\ memo' # memo
            /\ UNCHANGED <<styleCache, nextRef, creatorCalls, lastReturn>>
       ELSE /\ Accessor(creator, theme)
            /\ memo' = [memo EXCEPT ![creator] =
                            [deps |-> theme.ref, recomputed |-> TRUE,
                             value |-> lastReturn'[creator][theme.ref].result]]
    /\ UNCHANGED variantResult
    /\ UNCHANGED <<providerVars, consumerVars, buttonVars, textVars>>

clearStyleCacheLeavesOne ==
    /\ Cardinality(DOMAIN styleCache) > 1
    /\ \E k \in DOMAIN styleCache : styleCache' = [j \in {k} |-> styleCache[k]]
    /\ UNCHANGED <<nextRef, creatorCalls, lastReturn, variantResult, memo>>
    /\ UNCHANGED <<providerVars, consumerVars, buttonVars, textVars>>

\* clearStyleCache(): styleCache.clear()
clearStyleCache ==
    /\ DOMAIN styleCache # {}
    /\ styleCache' = <<>>
    /\ UNCHANGED <<nextRef, creatorCalls, lastReturn, variantResult, memo>>
    /\ UNCHANGED <<providerVars, consumerVars, buttonVars, textVars>>

StyleInit ==
    /\ styleCache = <<>>
    /\ nextRef = 1
    /\ creatorCalls = [c \in Creators |-> [r \in ThemeRefs |-> 0]]
    /\ lastReturn = [c \in Creators |->
                        [r \in ThemeRefs |-> [count |-> 0, result |-> Undefined]]]
    /\ variantResult = [variant |-> "none", theme |-> "none", result |-> Returned(Undefined)]
    /\ memo = [c \in Creators |-> [deps |-> "none", recomputed |-> FALSE, value |-> Undefined]]

----------------------------------------------------------------------------
(* Specifications *)

\* the provider as mounted with the default props and nothing queued
ProviderMounted ==
    /\ userColorScheme = "auto"
    /\ systemColorScheme = "light"
    /\ forcedTheme = Undefined
    /\ updateQueue = <<>>
    /\ contextValue = MakeContextValue("auto", "light", Undefined)
    /\ views = [c \in Consumers |-> lightTheme]
    /\ log = <<>>
    /\ envChanges = 0

\* a button rendered with the default props on iOS
ButtonMounted ==
    /\ button = ButtonDefaults
    /\ platform = "ios"
    /\ pressLog = <<>>
    /\ calls = <<>>

\* a button rendered with the default props, on either platform
ButtonMountedAnywhere ==
    /\ button = ButtonDefaults
    /\ platform \in Platform
    /\ pressLog = <<>>
    /\ calls = <<>>

Init == platform \in Platform /\ ProviderInit /\ ConsumerInit /\ ButtonInit /\ TextInit /\ StyleInit

ProviderNext ==
    \/ \E scheme \in Selection : setColorScheme(scheme)
    \/ toggleColorScheme
    \/ Render
    \/ \E preference \in SystemPreference : SystemChange(preference)
    \/ \E hook \in Hook, scope \in Scope : UseHook(hook, scope)

ButtonNext ==
    \/ \E prop \in DOMAIN PropValues : \E value \in PropValues[prop] : RenderButton(prop, value)
    \/ Press

TextNext ==
    \E prop \in DOMAIN TextPropValues : \E value \in TextPropValues[prop] : RenderText(prop, value)

ComponentNext ==
    \/ \E prop \in DOMAIN PropValues : \E value \in PropValues[prop] : RenderButton(prop, value)
    \/ TextNext

LookupNext == \E creator \in Creators, theme \in StyleThemes : Lookup(creator, theme)

StyleNext ==
    \/ LookupNext
    \/ clearStyleCache

HookNext ==
    \/ \E creator \in Creators, theme \in StyleThemes : useStyles(creator, theme)
    \/ clearStyleCache

CanonicalNext ==
    \/ \E creator \in Creators, theme \in CanonicalThemes : Lookup(creator, theme)
    \/ \E creator \in Creators, theme \in CanonicalThemes : useStyles(creator, theme)
    \/ clearStyleCache

VariantNext == \E variant \in VariantKey, theme \in StyleThemes : useVariant(variant, theme)

Next == ProviderNext \/ ButtonNext \/ TextNext \/ StyleNext \/ VariantNext \/ HookNext

Spec == Init /\ [][Next]_vars

\* the provider and its consumers
ProviderSpecInit == ProviderInit /\ ConsumerInit /\ ButtonMounted /\ TextInit /\ StyleInit

ProviderSpec == ProviderSpecInit /\ [][ProviderNext]_vars

\* one button and the presses it receives
ButtonSpecInit ==
    ProviderMounted /\ ConsumerInit /\ ButtonInit /\ platform = "ios" /\ TextInit /\ StyleInit

ButtonSpec == ButtonSpecInit /\ [][ButtonNext]_vars

\* the themed components as their parent renders them, on either platform
ComponentSpecInit ==
    ProviderMounted /\ ConsumerInit /\ ButtonMountedAnywhere /\ TextInit /\ StyleInit

ComponentSpec == ComponentSpecInit /\ [][ComponentNext]_vars

\* ThemedText under a provider of any selection, preference and override
TextSpecInit == ProviderInit /\ ConsumerInit /\ ButtonMounted /\ TextInit /\ StyleInit

TextSpec == TextSpecInit /\ [][TextNext]_vars

\* style accessors that are only looked up
StyleSpecInit == ProviderMounted /\ ConsumerInit /\ ButtonMounted /\ TextInit /\ StyleInit

LookupSpec == StyleSpecInit /\ [][LookupNext]_vars

\* components that call useVariant
VariantSpec == StyleSpecInit /\ [][VariantNext]_vars

\* components that call style hooks, and clearStyleCache
HookSpec == StyleSpecInit /\ [][HookNext]_vars

\* accessors and hooks under a provider that switches between the canonical themes
CanonicalSpec == StyleSpecInit /\ [][CanonicalNext]_vars

\* style accessors and clearStyleCache
StyleSpec == StyleSpecInit /\ [][StyleNext]_vars

----------------------------------------------------------------------------
(* Properties of the provider *)

\* C1: for every selection s and every environment preference e, the exposed
\* colorScheme is s when s is light or dark, and for auto it is dark when e is
\* dark and light when e is light or unknown.
C1_ResolvedScheme ==
    \A s \in Selection, e \in SystemPreference :
        (userColorScheme = s /\ systemColorScheme = e) =>
            contextValue.colorScheme =
                CASE s = "light" -> "light"
                  [] s = "dark" -> "dark"
                  [] s = "auto" /\ e = "dark" -> "dark"
                  [] OTHER -> "light"

\* auto under an environment that became unknown resolves to light
C1_Witness ==
    /\ userColorScheme = "auto"
    /\ systemColorScheme = "unknown"
    /\ envChanges > 0
    /\ contextValue.colorScheme = "light"

\* C2: in every reachable state the exposed colorScheme is light or dark, never auto.
C2_SchemeNeverAuto ==
    /\ contextValue.colorScheme \in ColorScheme
    /\ contextValue.colorScheme # "auto"

\* setColorScheme('auto') after an explicit selection has been rendered
C2_Witness ==
    /\ log # <<>>
    /\ Last(log).op = "set"
    /\ Last(log).arg = "auto"
    /\ Last(log).user \in ColorScheme
    /\ updateQueue = <<>>
    /\ userColorScheme = "auto"
    /\ contextValue.colorScheme = "dark"

\* C3: toggleColorScheme, when the selection is auto, sets the selection to the
\* opposite of the environment's preference (light if the environment is dark,
\* dark otherwise); when the selection is explicit, it sets it to the other one
\* of light and dark.  The value is the one passed to the setter, and it is the
\* selection once that call, being the last one, has been rendered.
C3_ToggleSemantics ==
    /\ [][toggleColorScheme =>
            Last(updateQueue') =
                IF userColorScheme = "auto"
                THEN (IF systemColorScheme = "dark" THEN "light" ELSE "dark")
                ELSE (IF userColorScheme = "light" THEN "dark" ELSE "light")]_vars
    /\ []((log # <<>> /\ Last(log).op = "toggle" /\ updateQueue = <<>>) =>
            userColorScheme =
                IF Last(log).user = "auto"
                THEN (IF Last(log).system = "dark" THEN "light" ELSE "dark")
                ELSE (IF Last(log).user = "light" THEN "dark" ELSE "light"))

\* a toggle from auto under a dark environment has been rendered: the selection is light
C3_Witness ==
    /\ log # <<>>
    /\ Last(log).op = "toggle"
    /\ Last(log).user = "auto"
    /\ Last(log).system = "dark"
    /\ updateQueue = <<>>
    /\ userColorScheme = "light"

\* C4: starting from an explicit selection, under any environment preference,
\* two toggleColorScheme calls leave the resolved scheme equal to the resolved
\* scheme before the first of them.
C4_ToggleTwiceRestores ==
    (/\ Len(log) = 2
     /\ log[1].op = "toggle"
     /\ log[2].op = "toggle"
     /\ log[1].user \in ColorScheme
     /\ log[1].pending = 0
     /\ updateQueue = <<>>)
    => contextValue.colorScheme = log[1].scheme

\* C5: after setColorScheme(light) (or dark) the resolved scheme is light (or
\* dark) and stays so through the environment's changes, until the next
\* setColorScheme or toggleColorScheme.
C5_ExplicitSelectionSticks ==
    \A s \in ColorScheme :
        (/\ log # <<>>
         /\ Last(log).op = "set"
         /\ Last(log).arg = s
         /\ updateQueue = <<>>)
        => contextValue.colorScheme = s

\* auto under a dark environment resolved to dark; setColorScheme('light') was
\* called and the environment has changed since: the scheme is light
C5_Witness ==
    /\ log = <<[op |-> "set", arg |-> "light", user |-> "auto", system |-> "dark",
               scheme |-> "dark", pending |-> 0]>>
    /\ envChanges > 0
    /\ updateQueue = <<>>
    /\ contextValue.colorScheme = "light"

C13_ThemeAlwaysDefined ==
    /\ contextValue.theme # Undefined
    /\ contextValue.theme \in {lightTheme, darkTheme, forcedTheme}
    /\ DOMAIN contextValue.theme = {"ref", "colors"}
    /\ DOMAIN contextValue.theme.colors = DOMAIN lightColors
    /\ \A role \in DOMAIN lightColors :
            DOMAIN contextValue.theme.colors[role] = DOMAIN lightColors[role]

\* without an override, setColorScheme('auto') under an environment of
\* unknown preference has been rendered: the theme is the light theme
C13_Witness ==
    /\ forcedTheme = Undefined
    /\ log # <<>>
    /\ Last(log).op = "set"
    /\ Last(log).arg = "auto"
    /\ updateQueue = <<>>
    /\ systemColorScheme = "unknown"
    /\ contextValue.theme = lightTheme

\* a render applies queued selection operations and the resolved scheme changes
SelectionChangesScheme ==
    /\ updateQueue # <<>>
    /\ updateQueue' = <<>>
    /\ systemColorScheme' = systemColorScheme
    /\ contextValue'.colorScheme # contextValue.colorScheme

\* no two consumers of the provider read different themes in one render
ConsumersAgree == \A c1, c2 \in Consumers : views'[c1] = views'[c2]

\* C14 as stated: whenever setColorScheme or toggleColorScheme changes the
\* resolved scheme, the provider exposes a new Theme reference, the theme of
\* the new scheme, and every consumer reads that reference in the next render;
\* no two consumers read different themes in one render.
C14_NewThemeReachesConsumers ==
    [][/\ ConsumersAgree
       /\ SelectionChangesScheme =>
            /\ contextValue'.theme.ref # contextValue.theme.ref
            /\ contextValue'.theme = themes[contextValue'.colorScheme]
            /\ \A c \in Consumers : views'[c] = contextValue'.theme]_vars

\* C14: when no override theme is supplied, whenever setColorScheme or
\* toggleColorScheme changes the resolved scheme, the provider exposes a new
\* Theme reference, the theme of the new scheme; with an override the exposed
\* theme stays the override.  In both cases every consumer reads the exposed
\* theme in the next render and no two consumers read different themes.
C14_ResolvedThemeReachesConsumers ==
    [][/\ ConsumersAgree
       /\ SelectionChangesScheme =>
            /\ \A c \in Consumers : views'[c] = contextValue'.theme
            /\ IF forcedTheme = Undefined
               THEN /\ contextValue'.theme.ref # contextValue.theme.ref
                    /\ contextValue'.theme = themes[contextValue'.colorScheme]
               ELSE contextValue'.theme = forcedTheme]_vars

\* without an override, a toggle made under the light scheme has been
\* rendered: both consumers read the dark theme
C14_Witness ==
    /\ forcedTheme = Undefined
    /\ log # <<>>
    /\ Last(log).op = "toggle"
    /\ Last(log).scheme = "light"
    /\ updateQueue = <<>>
    /\ contextValue.colorScheme = "dark"
    /\ \A c \in Consumers : views[c] = darkTheme

----------------------------------------------------------------------------
(* Properties of ThemedButton *)

\* C7: for every variant, color and size, the caller's onPress handler is never
\* invoked by a press made while disabled is set, while loading is set, or both.
C7_NoPressWhileDisabledOrLoading ==
    \A i \in 1..Len(calls) :
        /\ calls[i] \in 1..Len(pressLog)
        /\ ~pressLog[calls[i]].disabled
        /\ ~pressLog[calls[i]].loading

\* a press while only disabled and a press while only loading reached a button
\* that is not of the default variant, and the handler was not invoked
C7_Witness ==
    /\ Len(pressLog) = 2
    /\ \E i, j \in 1..2 :
        /\ pressLog[i].disabled /\ ~pressLog[i].loading /\ pressLog[i].onPress
        /\ pressLog[j].loading /\ ~pressLog[j].disabled /\ pressLog[j].onPress
    /\ button.variant = "outlined"
    /\ button.color = "error"
    /\ button.size = "large"
    /\ calls = <<>>

\* the events of the presses made with a handler while neither flag was set
EnabledPresses ==
    LET ok == SelectSeq(pressLog, LAMBDA e : ~e.disabled /\ ~e.loading /\ e.onPress)
    IN  [i \in 1..Len(ok) |-> ok[i].event]

\* C8: when neither disabled nor loading is set and a handler is supplied,
\* every press invokes the handler exactly once: n presses give n
\* invocations, in the order of the presses.
C8_EveryEnabledPressInvokesOnce == calls = EnabledPresses

\* two presses in a row of an enabled button: two invocations, in order
C8_Witness ==
    /\ Len(pressLog) = 2
    /\ \A i \in 1..2 : ~pressLog[i].disabled /\ ~pressLog[i].loading /\ pressLog[i].onPress
    /\ calls = <<1, 2>>

----------------------------------------------------------------------------
(* Properties of the style cache *)

\* C9: two calls of one style accessor with the same theme reference return
\* the identical style object, whatever other lookups happen in between.
C9_SameThemeSameObject ==
    [][\A c \in Creators, r \in ThemeRefs :
            lastReturn[c][r].count > 0 =>
                lastReturn'[c][r].result = lastReturn[c][r].result]_vars

\* an accessor was called twice with one theme, with lookups of another
\* accessor and of another theme made as well
C9_Witness ==
    \E c \in Creators, r \in ThemeRefs :
        /\ lastReturn[c][r].count >= 2
        /\ \E c2 \in Creators \ {c} : lastReturn[c2][r].count > 0
        /\ \E r2 \in ThemeRefs \ {r} : lastReturn[c][r2].count > 0

\* C10: for two themes with the same primary.main and background.default that
\* differ in another token the style function uses, an accessor applied to
\* both returns for each theme the styles computed from that theme, and the
\* two themes do not share one cached result.
C10_CollidingThemesKeepOwnStyles ==
    \A c \in Creators, t1, t2 \in StyleThemes :
        (/\ t1.ref # t2.ref
         /\ cacheKey(t1) = cacheKey(t2)
         /\ StyleCreator(c, t1) # StyleCreator(c, t2)
         /\ lastReturn[c][t1.ref].count > 0
         /\ lastReturn[c][t2.ref].count > 0)
        => /\ lastReturn[c][t1.ref].result.styles = StyleCreator(c, t1)
           /\ lastReturn[c][t2.ref].result.styles = StyleCreator(c, t2)
           /\ lastReturn[c][t1.ref].result.ref # lastReturn[c][t2.ref].result.ref

\* C11: for an accessor made by createStyles(f), the first lookup with a
\* theme invokes f exactly once on that theme and stores the result, and every
\* later lookup with that theme returns the stored result without invoking f
\* again.
C11_CreatorInvokedOncePerTheme ==
    \A c \in Creators, r \in ThemeRefs :
        lastReturn[c][r].count > 0 =>
            /\ creatorCalls[c][r] = 1
            /\ lastReturn[c][r].result.styles = StyleCreator(c, ThemeOf(r))
            /\ CacheHas(cacheKey(ThemeOf(r)))
            /\ styleCache[cacheKey(ThemeOf(r))] = lastReturn[c][r].result

\* every entry of the cache is kept with its value, and at most one is added
CacheEntriesKept ==
    /\ \A k \in DOMAIN styleCache :
            k \in DOMAIN styleCache' /\ styleCache'[k] = styleCache[k]
    /\ Cardinality((DOMAIN styleCache') \ (DOMAIN styleCache)) <= 1
    /\ Cardinality(DOMAIN styleCache') >= Cardinality(DOMAIN styleCache)

\* C12 as stated: once an entry has been stored for a key, no operation of
\* the style module removes or replaces it, and the number of entries never
\* decreases.
C12_EntriesNeverRemoved == [][CacheEntriesKept]_vars

\* C12: no accessor lookup removes or replaces a stored entry: the key stays
\* present with the same value and the number of entries does not decrease (it
\* grows by one per distinct key), until clearStyleCache is called, which
\* removes every entry.
C12_EntriesKeptUntilCleared ==
    [][IF clearStyleCache THEN DOMAIN styleCache' = {} ELSE CacheEntriesKept]_vars

\* two keys are stored and a later lookup has been answered from the cache
C12_Witness ==
    /\ Cardinality(DOMAIN styleCache) = 2
    /\ TotalLookups >= 3
    /\ nextRef = 3

----------------------------------------------------------------------------
(* Properties of the themed components *)

\* every key of style `part` is in `style` with the same value
StyleIncludes(style, part) ==
    \A k \in DOMAIN part : k \in DOMAIN style /\ style[k] = part[k]

\* C15: rendering ThemedText with a variant that is not in the typography table,
\* or ThemedButton with an unknown variant, color or size, raises no error and
\* falls back: the text keeps only its colour; an unknown button color renders
\* as color primary does; an unknown button variant gets the base style (with
\* the disabled overlay when the button is disabled) and no variant colouring;
\* an unknown size gets the base style without paddings, minimum height or
\* font size.
C15_UnknownPropsFallBack ==
    /\ ~TextView.threw
    /\ ~ButtonView.threw
    /\ text.variant = Invalid => DOMAIN TextView.value.style = {"color"}
    /\ button.color \notin ButtonColor =>
           ButtonView = ThemedButton([button EXCEPT !.color = "primary"], "inside", platform)
    /\ button.variant \notin ButtonVariant =>
           /\ StyleIncludes(ButtonView.value.style,
                            ButtonBaseStyle(button.size, FALSE, platform))
           /\ StyleIncludes(ButtonView.value.textStyle, TextBaseStyle(button.size))
           /\ ~(button.disabled \/ button.loading) =>
                  /\ ButtonView.value.style = ButtonBaseStyle(button.size, FALSE, platform)
                  /\ ButtonView.value.textStyle = TextBaseStyle(button.size)
    /\ button.size \notin ButtonSize =>
           /\ StyleIncludes(ButtonView.value.style,
                            [borderRadius |-> "radius.md", alignItems |-> "center",
                             justifyContent |-> "center", flexDirection |-> "row"])
           /\ DOMAIN ButtonView.value.style
                  \cap {"minHeight", "paddingHorizontal", "paddingVertical"} = {}
           /\ DOMAIN ButtonView.value.textStyle \cap {"fontSize", "lineHeight"} = {}

\* an enabled button with an unknown color and a known variant has been rendered,
\* next to a button-independent text with an unknown variant
C15_Witness ==
    /\ button.color = Invalid
    /\ button.variant = "outlined"
    /\ button.size = Invalid
    /\ ~button.disabled /\ ~button.loading
    /\ text.variant = Invalid
    /\ ButtonView.value.style.borderColor = lightColors.primary.main
    /\ "minHeight" \notin DOMAIN ButtonView.value.style

C18_MinHeightMeetsTouchTarget ==
    button.size \in ButtonSize =>
        ButtonView.value.style.minHeight >= (IF platform = "ios" THEN 44 ELSE 48)

\* C19: rendering ThemedText or ThemedButton with no ThemeProvider in scope does
\* not throw.
C19_ComponentsRenderWithoutProvider ==
    (consumer.hook \in {"ThemedText", "ThemedButton"} /\ consumer.scope = "outside")
        => ~consumer.result.threw

\* C20: for every theme, the names primary, secondary, disabled and inverse give
\* the theme's text colour of that name, any other colour string is used
\* unchanged, an omitted colour behaves as primary and an omitted variant as
\* bodyMedium.
C20_TextColorResolution ==
    LET theme == contextValue.theme
        shown == TextView.value.style
    IN  /\ ~TextView.threw
        /\ text.color \in TextColorName => shown.color = theme.colors.text[text.color]
        /\ text.color \notin TextColorName \cup {NotGiven} => shown.color = text.color
        /\ text.color = NotGiven => shown.color = theme.colors.text.primary
        /\ text.variant = NotGiven =>
               TextView = ThemedText([text EXCEPT !.variant = "bodyMedium"], "inside")

----------------------------------------------------------------------------
(* Properties of useVariant *)

\* C16: useVariant with a key that is absent from the variants map fails with
\* an error naming the missing variant and returns no style; with a key that
\* is present it returns that variant's style for the theme without error.
C16_UseVariantResult ==
    LET r == variantResult
    IN  r.variant # "none" =>
            IF r.variant \in Creators
            THEN /\ ~r.result.threw
                 /\ r.result.value.styles = StyleCreator(r.variant, ThemeOf(r.theme))
            ELSE /\ r.result.threw
                 /\ r.result.error = "Variant \"" \o r.variant \o "\" not found in variants object"
                 /\ r.result.value = Undefined

----------------------------------------------------------------------------
(* Properties of the style hooks *)

\* C21: a hook made by createStylesHook returns the identical style object on
\* successive renders of its component while the theme reference is unchanged,
\* and recomputes its result only in a render where the theme reference
\* differs from that of the previous render.
C21_HookRecomputesOnThemeChange ==
    [][\A c \in Creators, t \in StyleThemes :
            useStyles(c, t) =>
                /\ memo[c].deps = t.ref =>
                        /\ memo'[c].value = memo[c].value
                        /\ ~memo'[c].recomputed
                        /\ creatorCalls' = creatorCalls
                /\ memo'[c].recomputed => memo[c].deps # t.ref
                /\ memo'[c].value # Undefined]_vars

\* a component rendered again with the same theme after the cache was cleared:
\* it keeps its style object and computes nothing
C21_Witness ==
    \E c \in Creators :
        /\ memo[c].deps = "lightTheme"
        /\ ~memo[c].recomputed
        /\ memo[c].value # Undefined
        /\ styleCache = <<>>

\* C22: for any two different style functions f and g and any theme t, after
\* any order of earlier lookups, the accessor of f applied to t returns the
\* styles f produces for t and the accessor of g applied to t returns the
\* styles g produces for t (the keys of createVariants are such accessors).
C22_EachAccessorOwnStyles ==
    \A f, g \in Creators, r \in ThemeRefs :
        (/\ f # g
         /\ lastReturn[f][r].count > 0
         /\ lastReturn[g][r].count > 0)
        => /\ lastReturn[f][r].result.styles = StyleCreator(f, ThemeOf(r))
           /\ lastReturn[g][r].result.styles = StyleCreator(g, ThemeOf(r))

\* C23: after clearStyleCache() the style cache holds no entries, and the next
\* accessor lookup, for any theme, invokes its style function again and
\* stores a fresh result; clearStyleCache changes nothing in the provider's
\* selection or in the theme it exposes.
C23_ClearForcesRecompute ==
    [][/\ clearStyleCache =>
            /\ DOMAIN styleCache' = {}
            /\ UNCHANGED <<userColorScheme, updateQueue, systemColorScheme,
                           forcedTheme, contextValue, views>>
       /\ \A c \in Creators, t \in StyleThemes :
            (styleCache = <<>> /\ nextRef > 1 /\ Lookup(c, t)) =>
                /\ creatorCalls'[c][t.ref] = creatorCalls[c][t.ref] + 1
                /\ lastReturn'[c][t.ref].result.styles = StyleCreator(c, t)
                /\ cacheKey(t) \in DOMAIN styleCache'
                /\ styleCache'[cacheKey(t)] = lastReturn'[c][t.ref].result
                /\ \A c2 \in Creators, r2 \in ThemeRefs :
                        lastReturn[c2][r2].count > 0 =>
                            lastReturn[c2][r2].result.ref
                                # lastReturn'[c][t.ref].result.ref]_vars

\* the cache was cleared and a style function has then been invoked a second
\* time on the theme it had styles for
C23_Witness ==
    \E c \in Creators, r \in ThemeRefs :
        /\ creatorCalls[c][r] = 2
        /\ DOMAIN styleCache = {cacheKey(ThemeOf(r))}
        /\ styleCache[cacheKey(ThemeOf(r))].ref = 2

\* the styles some style function computes from theme t
StylesOf(t) == {StyleCreator(c, t) : c \in Creators}

\* C30: with only the two canonical themes in use, after any sequence of
\* switches between light and dark, the styles an accessor or a style hook
\* returns for the active theme are styles computed from that theme, never
\* styles cached for the other scheme.
C30_NoStylesOfOtherScheme ==
    \A c \in Creators, t \in CanonicalThemes :
        /\ lastReturn[c][t.ref].count > 0 =>
                /\ lastReturn[c][t.ref].result.styles \in StylesOf(t)
                /\ \A o \in CanonicalThemes \ {t} :
                        lastReturn[c][t.ref].result.styles \notin StylesOf(o)
        /\ memo[c].deps = t.ref =>
                /\ memo[c].value.styles \in StylesOf(t)
                /\ \A o \in CanonicalThemes \ {t} :
                        memo[c].value.styles \notin StylesOf(o)

\* an accessor was used under light, under dark and under light again, and a
\* hook rendered under light now renders under dark
C30_Witness ==
    \E c \in Creators :
        /\ lastReturn[c]["lightTheme"].count >= 2
        /\ lastReturn[c]["darkTheme"].count >= 1
        /\ memo[c].deps = "darkTheme"
        /\ memo[c].value.styles = StyleCreator(c, darkTheme)
        /\ Cardinality(DOMAIN styleCache) = 2

----------------------------------------------------------------------------
(* Properties of the provider: toggles, flags and frame conditions *)

\* the other one of light and dark
Opposite(scheme) == IF scheme = "light" THEN "dark" ELSE "light"

\* C24: for every selection and every environment preference, one
\* toggleColorScheme, once rendered, changes the resolved scheme to the
\* opposite of the scheme it was called under and leaves the stored selection
\* explicit (light or dark), never auto.
C24_ToggleFlipsResolvedScheme ==
    \A s \in Selection, e \in SystemPreference :
        (/\ log # <<>>
         /\ Last(log).op = "toggle"
         /\ Last(log).user = s
         /\ Last(log).system = e
         /\ updateQueue = <<>>)
        => /\ contextValue.colorScheme = Opposite(Last(log).scheme)
           /\ userColorScheme \in ColorScheme
           /\ userColorScheme # "auto"

\* a toggle from auto under an environment of unknown preference has been
\* rendered: the scheme went from light to dark and the selection is dark
C24_Witness ==
    /\ log # <<>>
    /\ Last(log).op = "toggle"
    /\ Last(log).user = "auto"
    /\ Last(log).system = "unknown"
    /\ Last(log).scheme = "light"
    /\ Last(log).pending = 0
    /\ updateQueue = <<>>
    /\ userColorScheme = "dark"
    /\ contextValue.colorScheme = "dark"

\* the last two operations were toggleColorScheme calls of one rendered
\* callback, with no render between them
TwoTogglesOneRender ==
    /\ Len(log) = 2
    /\ log[1].op = "toggle"
    /\ log[2].op = "toggle"
    /\ log[2].pending = log[1].pending + 1

\* C25: when toggleColorScheme is invoked twice from the same rendered
\* callback with no render in between, both invocations write the same
\* selection, computed from the rendered snapshot, so the resulting selection
\* is that of a single toggle and the scheme does not return to the original.
C25_DoubleToggleActsAsOne ==
    /\ [][(toggleColorScheme /\ updateQueue # <<>> /\ Last(log).op = "toggle") =>
            /\ Last(updateQueue') = Last(updateQueue)
            /\ Last(updateQueue') = Opposite(contextValue.colorScheme)]_vars
    /\ []((TwoTogglesOneRender /\ updateQueue = <<>>) =>
            /\ userColorScheme = Opposite(log[1].scheme)
            /\ contextValue.colorScheme = Opposite(log[1].scheme)
            /\ contextValue.colorScheme # log[1].scheme)

\* two toggles made under a rendered selection of light have been rendered
\* together: the selection is dark
C25_Witness ==
    /\ TwoTogglesOneRender
    /\ log[1].pending = 0
    /\ log[1].user = "light"
    /\ updateQueue = <<>>
    /\ userColorScheme = "dark"

\* C26: in every reachable state exactly one of isDark and isLight is true,
\* isDark holds exactly when the exposed colorScheme is dark, and isLight
\* exactly when it is light.
C26_ExactlyOneFlag ==
    /\ contextValue.isDark # contextValue.isLight
    /\ contextValue.isDark = (contextValue.colorScheme = "dark")
    /\ contextValue.isLight = (contextValue.colorScheme = "light")

\* the selection is auto and the environment, which has changed, is dark:
\* isDark is set and isLight is not
C26_Witness ==
    /\ userColorScheme = "auto"
    /\ systemColorScheme = "dark"
    /\ envChanges > 0
    /\ contextValue.isDark
    /\ ~contextValue.isLight

\* C27: when no override theme is supplied, the exposed theme is the canonical
\* light theme exactly when the exposed colorScheme is light and the canonical
\* dark theme exactly when it is dark.
C27_ThemeMatchesScheme ==
    forcedTheme = Undefined =>
        /\ (contextValue.theme = lightTheme) = (contextValue.colorScheme = "light")
        /\ (contextValue.theme = darkTheme) = (contextValue.colorScheme = "dark")
        /\ contextValue.theme = themes[contextValue.colorScheme]

\* without an override, a toggle made under the light scheme has been
\* rendered: the dark theme is exposed
C27_Witness ==
    /\ forcedTheme = Undefined
    /\ log # <<>>
    /\ Last(log).op = "toggle"
    /\ Last(log).scheme = "light"
    /\ updateQueue = <<>>
    /\ contextValue.colorScheme = "dark"
    /\ contextValue.theme = darkTheme

\* C28: when an override theme is supplied, the exposed theme is that override
\* in every reachable state: setColorScheme, toggleColorScheme and changes of
\* the environment's preference alter only colorScheme, isDark and isLight.
C28_OverrideThemeStays ==
    /\ [](forcedTheme # Undefined => contextValue.theme = forcedTheme)
    /\ [][forcedTheme # Undefined =>
            /\ contextValue'.theme = contextValue.theme
            /\ \A c \in Consumers : views'[c] = forcedTheme]_vars

\* under the override, whose colours are those of the light theme, a toggle
\* has been rendered and the scheme is dark: the theme is still the override
C28_Witness ==
    /\ forcedTheme = customTheme
    /\ log # <<>>
    /\ Last(log).op = "toggle"
    /\ Last(log).scheme = "light"
    /\ updateQueue = <<>>
    /\ contextValue.colorScheme = "dark"
    /\ contextValue.isDark
    /\ contextValue.theme = customTheme

\* the selection React holds: the state value with the queued updates applied
StoredSelection == ReducedState(userColorScheme, updateQueue)

====
